---- MODULE Spec2Model ----
(***************************************************************************)
(* A model of tools/triage/gitea_utils.py: the request layer               *)
(* (url_json_get), the pagination loop (url_json_get_all_pages), the       *)
(* paginated callers (gitea_json_activities_get, gitea_json_issues_search, *)
(* gitea_json_issue_events_filter) and git_username_detect.                *)
(*                                                                         *)
(* Strings that the code only concatenates are atomic tokens; a URL is the *)
(* sequence of its tokens, with "?", "&" and "=" as tokens of their own.   *)
(* Python's None is Null where a string is expected and a `none` flag      *)
(* elsewhere.                                                              *)
(***************************************************************************)
EXTENDS Integers, Sequences, FiniteSets, TLC

VARIABLES
    caller,     \* which function the program called: "direct" is url_json_get_all_pages itself
    args,       \* the caller's arguments
    pc,         \* position: "entry", "pages_call", "pages_loop", "returned", "done", "raised"
    url,        \* url_json_get_all_pages: parameter url
    limit,      \* url_json_get_all_pages: parameter limit
    verbose,    \* url_json_get_all_pages: parameter verbose
    page,       \* url_json_get_all_pages: local page
    result,     \* url_json_get_all_pages: local result
    query_params, \* gitea_json_issues_search / gitea_json_issue_events_filter: local query_params
    ret,        \* the value the called function returned
    exc,        \* the exception that left the called function, "" when none
    printed,    \* the lines written to standard output
    server,     \* the remote service answering urlopen
    requests,   \* the URLs handed to urlopen, in order
    responses   \* what urlopen produced for each of them, in order

vars == <<caller, args, pc, url, limit, verbose, page, result, query_params,
          ret, exc, printed, server, requests, responses>>

----------------------------------------------------------------------------
(* Bounds and program constants *)

MaxItems == 2
MaxPages == 3
MaxN == 5
MaxEvents == 3
MaxOut == 3

BASE_API_URL == "https://projects.blender.org/api/v1"
MaxLimit == 50
DefaultLimit == 50

Null == "<None>"
NoArgs == [none |-> TRUE]
NoRet == [set |-> FALSE, none |-> TRUE, val |-> <<>>]
RetNone == [set |-> TRUE, none |-> TRUE, val |-> <<>>]
RetVal(v) == [set |-> TRUE, none |-> FALSE, val |-> v]

----------------------------------------------------------------------------
(* Sequences *)

RECURSIVE Flatten(_)
Flatten(ss) == IF ss = <<>> THEN <<>> ELSE Head(ss) \o Flatten(Tail(ss))

SeqsUpTo(S, n) == UNION {[1..k -> S] : k \in 0..n}

Slice(s, from, to) ==
    IF from > Len(s) \/ to < from THEN <<>>
    ELSE SubSeq(s, from, IF to > Len(s) THEN Len(s) ELSE to)

----------------------------------------------------------------------------
(* The remote service: what urlopen(url) and response.read() produce *)

Json(body) == [kind |-> "json", body |-> body]
JsonNull == [kind |-> "null", body |-> <<>>]
UrlError == [kind |-> "urlerror", body |-> <<>>]
ReadError == [kind |-> "readerror", body |-> <<>>]

Items == {"a", "b"}
AnyResponses == {Json(b) : b \in SeqsUpTo(Items, MaxItems)} \cup {JsonNull, UrlError, ReadError}

HasQuery(u) == \E i \in 1..Len(u) : u[i] = "?"

\* The value of query parameter `name` of URL u, Null when it has none.
QueryParam(u, name) ==
    LET q == CHOOSE i \in 1..Len(u) : u[i] = "?" /\ \A j \in 1..(i - 1) : u[j] # "?"
        at == {i \in (q + 1)..(Len(u) - 2) :
                  u[i] = name /\ u[i + 1] = "=" /\ u[i - 1] \in {"?", "&"}}
    IN  IF at = {} THEN Null ELSE u[(CHOOSE i \in at : \A j \in at : i >= j) + 2]

ParseInt(s) == CHOOSE n \in 0..(MaxLimit + MaxN + 10) : ToString(n) = s

\* A service holding the list srv.data: the request without page parameters is
\* answered with its first srv.D items, page=k&limit=L with items (k-1)*L+1 .. k*L;
\* a URL with no query part names no route of the service (HTTP 404).
ListResponse(srv, u) ==
    IF ~HasQuery(u) THEN
        IF \E i \in 1..Len(u) : u[i] = "&" THEN UrlError ELSE Json(Slice(srv.data, 1, srv.D))
    ELSE IF QueryParam(u, "page") = Null THEN Json(Slice(srv.data, 1, srv.D))
    ELSE LET k == ParseInt(QueryParam(u, "page"))
             L == ParseInt(QueryParam(u, "limit"))
         IN  Json(Slice(srv.data, (k - 1) * L + 1, k * L))

\* The responses the service may give to request number n, for URL u.
ServerResponses(srv, u, n) ==
    CASE srv.mode = "any" ->
            IF n <= MaxPages THEN AnyResponses
            ELSE AnyResponses \ {Json(b) : b \in SeqsUpTo(Items, MaxItems) \ {<<>>}}
      [] srv.mode = "script" ->
            {IF n <= Len(srv.pages) THEN Json(srv.pages[n]) ELSE Json(<<>>)}
      [] srv.mode = "list" -> {ListResponse(srv, u)}

AnyServer == [mode |-> "any", pages |-> <<>>, data |-> <<>>, D |-> 0]
ScriptServer(pages) == [mode |-> "script", pages |-> pages, data |-> <<>>, D |-> 0]
ListServer(data, D) == [mode |-> "list", pages |-> <<>>, data |-> data, D |-> D]

----------------------------------------------------------------------------
(* url_json_get *)

UrlJsonGetNoCatch(u, resp) ==
    CASE resp.kind = "json" -> [raised |-> "", none |-> FALSE, val |-> resp.body, out |-> <<>>]
      [] resp.kind = "null" -> [raised |-> "", none |-> TRUE, val |-> <<>>, out |-> <<>>]
      [] resp.kind = "urlerror" -> [raised |-> "URLError", none |-> TRUE, val |-> <<>>, out |-> <<>>]
      [] resp.kind = "readerror" -> [raised |-> "Exception", none |-> TRUE, val |-> <<>>, out |-> <<>>]

\* urlopen's URLError is caught, printed and turned into None; the body of a
\* response is decoded as JSON; an exception of response.read() or json.loads is
\* outside the try and leaves the function.
UrlJsonGet(u, resp) ==
    CASE resp.kind = "json" -> [raised |-> "", none |-> FALSE, val |-> resp.body, out |-> <<>>]
      [] resp.kind = "null" -> [raised |-> "", none |-> TRUE, val |-> <<>>, out |-> <<>>]
      [] resp.kind = "urlerror" ->
            [raised |-> "", none |-> TRUE, val |-> <<>>,
             out |-> <<u, <<"Error making HTTP request:", "URLError">>>>]
      [] resp.kind = "readerror" -> [raised |-> "Exception", none |-> TRUE, val |-> <<>>, out |-> <<>>]

----------------------------------------------------------------------------
(* url_json_get_all_pages *)

LimitOkOffByOne(l) == l <= MaxLimit + 1

\* assert limit <= 50
LimitOk(l) == l <= MaxLimit

PageUrlAlways(u, p, l) == u \o <<"&", "page", "=", ToString(p), "&", "limit", "=", ToString(l)>>

\* The URL requested for page p: the base URL for page 1, else
\* f"{url}&page={page}&limit={limit}".
PageUrl(u, p, l) ==
    IF p = 1 THEN u
    ELSE u \o <<"&", "page", "=", ToString(p), "&", "limit", "=", ToString(l)>>

\* `not result_page`: None or an empty list.
FalsyPage(got) == got.none \/ got.val = <<>>

ExtendPrepend(res, result_page) == result_page \o res

\* result.extend(result_page)
Extend(res, result_page) == res \o result_page

ShortPageOrEqual(result_page, l) == Len(result_page) <= l

\* len(result_page) < limit
ShortPage(result_page, l) == Len(result_page) < l

NextPageSkips(p) == p + 2

\* page += 1
NextPage(p) == p + 1

\* The call: the precondition, then result = [] and page = 1.
PagesCall ==
    /\ pc = "pages_call"
    /\ IF LimitOk(limit)
       THEN /\ pc' = "pages_loop"
            /\ result' = <<>>
            /\ page' = 1
            /\ exc' = exc
       ELSE /\ pc' = "raised"
            /\ exc' = "AssertionError"
            /\ UNCHANGED <<result, page>>
    /\ UNCHANGED <<caller, args, url, limit, verbose, query_params, ret, printed,
                   server, requests, responses>>

\* One iteration of the while loop, up to the break (and return) or page += 1.
PagesIter ==
    /\ pc = "pages_loop"
    /\ LET u == PageUrl(url, page, limit) IN
       \E resp \in ServerResponses(server, u, Len(requests) + 1) :
          LET got == UrlJsonGet(u, resp)
              progress == IF verbose THEN <<<<"Requesting page ", ToString(page)>>>> ELSE <<>>
          IN  /\ requests' = Append(requests, u)
              /\ responses' = Append(responses, resp)
              /\ printed' = printed \o progress \o got.out
              /\ IF got.raised # ""
                 THEN /\ pc' = "raised"
                      /\ exc' = got.raised
                      /\ UNCHANGED <<result, page, ret>>
                 ELSE IF FalsyPage(got)
                 THEN /\ pc' = "returned"
                      /\ ret' = RetVal(result)
                      /\ UNCHANGED <<result, page, exc>>
                 ELSE IF ShortPage(got.val, limit)
                 THEN /\ pc' = "returned"
                      /\ result' = Extend(result, got.val)
                      /\ ret' = RetVal(Extend(result, got.val))
                      /\ UNCHANGED <<page, exc>>
                 ELSE /\ pc' = "pages_loop"
                      /\ result' = Extend(result, got.val)
                      /\ page' = NextPage(page)
                      /\ UNCHANGED <<ret, exc>>
    /\ UNCHANGED <<caller, args, url, limit, verbose, query_params, server>>

----------------------------------------------------------------------------
(* url_json_get_all_pages against a service that may answer anything *)

BaseUrl == <<BASE_API_URL, "/repos/issues/search", "?", "state", "=", "all">>

InitDirect(srv, limits, verboses) ==
    /\ caller = "direct"
    /\ args = NoArgs
    /\ pc = "pages_call"
    /\ url = BaseUrl
    /\ limit \in limits
    /\ verbose \in verboses
    /\ page = 0
    /\ result = <<>>
    /\ query_params = <<>>
    /\ ret = NoRet
    /\ exc = ""
    /\ printed = <<>>
    /\ server = srv
    /\ requests = <<>>
    /\ responses = <<>>

Limits == (-1)..(MaxLimit + 1)

InitPages == InitDirect(AnyServer, Limits, BOOLEAN)
NextPages == PagesCall \/ PagesIter
SpecPages == InitPages /\ [][NextPages]_vars

----------------------------------------------------------------------------
(* url_json_get_all_pages against a scripted endpoint and against a list service *)

ScriptSizes == <<50, 50, 37>>
ScriptPages == [k \in 1..Len(ScriptSizes) |-> [i \in 1..ScriptSizes[k] |-> <<k, i>>]]

InitScript == InitDirect(ScriptServer(ScriptPages), 1..(MaxLimit + 1), {FALSE})
SpecScript == InitScript /\ [][NextPages]_vars

InitList ==
    \E N \in 0..MaxN, D \in 1..MaxLimit :
        InitDirect(ListServer([i \in 1..N |-> i], D), 1..MaxLimit, {FALSE})
SpecList == InitList /\ [][NextPages]_vars

----------------------------------------------------------------------------
(* Python values of the search filters *)

PyNone == [t |-> "NoneType", s |-> "None"]
PyBool(b) == [t |-> "bool", s |-> IF b THEN "True" ELSE "False"]
PyStr(s) == [t |-> "str", s |-> s]

\* bool(v)
Truthy(v) == (v.t = "bool" /\ v.s = "True") \/ (v.t = "str" /\ v.s # "")

\* urllib.parse.quote_plus(str(v)) on the strings of the model: ":" and "," are
\* percent-encoded, the other strings here hold unreserved characters only.
QuotePlus(s) ==
    CASE s = "2024-01-01T00:00:00Z" -> "2024-01-01T00%3A00%3A00Z"
      [] s = "2024-02-01T00:00:00Z" -> "2024-02-01T00%3A00%3A00Z"
      [] s = "bug,ui" -> "bug%2Cui"
      [] OTHER -> s

\* urllib.parse.urlencode of a mapping kept as the sequence of its items.
UrlEncode(qp) ==
    Flatten([i \in 1..Len(qp) |->
        (IF i = 1 THEN <<>> ELSE <<"&">>) \o <<QuotePlus(qp[i].k), "=", QuotePlus(qp[i].v.s)>>])

Keys(qp) == {qp[i].k : i \in 1..Len(qp)}

----------------------------------------------------------------------------
(* gitea_json_activities_get *)

ActivityUrl(username, date) ==
    <<BASE_API_URL, "/users/", username, "/activities/feeds", "?",
      "only-performed-by", "=", "true", "&", "date", "=", date>>

ActivitiesCall ==
    /\ pc = "entry"
    /\ caller = "activities"
    /\ url' = ActivityUrl(args.username, args.date)
    /\ limit' = DefaultLimit
    /\ verbose' = FALSE
    /\ pc' = "pages_call"
    /\ UNCHANGED <<caller, args, page, result, query_params, ret, exc, printed,
                   server, requests, responses>>

----------------------------------------------------------------------------
(* gitea_json_issues_search *)

\* locals() of the function, in the order of its parameters.
LocalNames == <<"type", "since", "before", "state", "labels", "created", "reviewed",
                "access_token", "verbose">>

KeptAll(k, v) == k \notin {"verbose"}

\* `if v and k not in {"verbose"}`
Kept(k, v) == Truthy(v) /\ k \notin {"verbose"}

\* `if v is True: "true" elif v is False: "false"`
Coerce(v) ==
    IF v = PyBool(TRUE) THEN PyStr("true")
    ELSE IF v = PyBool(FALSE) THEN PyStr("false")
    ELSE v

QueryParams(a) ==
    LET items == [i \in 1..Len(LocalNames) |-> [k |-> LocalNames[i], v |-> a[LocalNames[i]]]]
        kept == SelectSeq(items, LAMBDA kv : Kept(kv.k, kv.v))
    IN  [i \in 1..Len(kept) |-> [k |-> kept[i].k, v |-> Coerce(kept[i].v)]]

SearchUrl(qp) == <<BASE_API_URL, "/repos/issues/search">> \o <<"?">> \o UrlEncode(qp)

SearchCall ==
    /\ pc = "entry"
    /\ caller = "search"
    /\ LET qp == QueryParams(args)
           v == Truthy(args["verbose"])
           scope == IF "type" \in Keys(qp)
                    THEN (CHOOSE kv \in {qp[i] : i \in 1..Len(qp)} : kv.k = "type").v.s
                    ELSE "issues and pulls"
           shown == SelectSeq(qp, LAMBDA kv : kv.k \notin {"type", "access_token"})
       IN  /\ query_params' = qp
           /\ printed' = IF v
                         THEN printed \o <<<<"# Searching for ", scope, " #">>,
                                           <<"Query params:">> \o
                                             Flatten([i \in 1..Len(shown) |->
                                                 <<shown[i].k, shown[i].v.s>>])>>
                         ELSE printed
           /\ url' = SearchUrl(qp)
           /\ limit' = DefaultLimit
           /\ verbose' = v
    /\ pc' = "pages_call"
    /\ UNCHANGED <<caller, args, page, result, ret, exc, server, requests, responses>>

SearchReturn ==
    /\ pc = "returned"
    /\ caller = "search"
    /\ printed' = IF verbose
                  THEN Append(printed, <<"Total: ", ToString(Len(ret.val))>>)
                  ELSE printed
    /\ pc' = "done"
    /\ UNCHANGED <<caller, args, url, limit, verbose, page, result, query_params, ret,
                   exc, server, requests, responses>>

----------------------------------------------------------------------------
(* gitea_json_issue_events_filter *)

\* f"{date.isoformat()}Z" of the dates of the model.
IsoFormatZ(d) ==
    CASE d = "2024-01-01" -> "2024-01-01T00:00:00Z"
      [] d = "2024-02-01" -> "2024-02-01T00:00:00Z"

TimelineParams(date_start, date_end) ==
    (IF date_start # Null THEN <<[k |-> "since", v |-> PyStr(IsoFormatZ(date_start))]>> ELSE <<>>)
    \o (IF date_end # Null THEN <<[k |-> "before", v |-> PyStr(IsoFormatZ(date_end))]>> ELSE <<>>)

\* The timeline URL, with a query part only `if date_start or date_end`.
TimelineUrl(issue_fullname, date_start, date_end) ==
    LET base == <<BASE_API_URL, "/repos/", issue_fullname, "/timeline">> IN
    IF date_start # Null \/ date_end # Null
    THEN base \o <<"?">> \o UrlEncode(TimelineParams(date_start, date_end))
    ELSE base

NullEvent == [null |-> TRUE, user |-> Null, type |-> Null, label |-> Null]
Ev(u, t, l) == [null |-> FALSE, user |-> u, type |-> t, label |-> l]

NoLabels == [none |-> TRUE, names |-> {}]
LabelSet(S) == [none |-> FALSE, names |-> S]

EventKeptAnyAuthor(event, username, labels, event_type) ==
    /\ ~event.null
    /\ \/ (~labels.none /\ labels.names # {}) /\ event.type = "label"
          /\ event.label \in labels.names
       \/ event.type \in event_type

\* The body of the for loop: TRUE when the event reaches result.append(event).
EventKept(event, username, labels, event_type) ==
    IF event.null THEN FALSE
    ELSE IF event.user = Null \/ event.user # username THEN FALSE
    ELSE IF (~labels.none /\ labels.names # {}) /\ event.type = "label"
            /\ event.label \in labels.names THEN TRUE
    ELSE IF event.type \in event_type THEN TRUE
    ELSE FALSE

FilterCall ==
    /\ pc = "entry"
    /\ caller = "filter"
    /\ query_params' = IF args.date_start # Null \/ args.date_end # Null
                       THEN TimelineParams(args.date_start, args.date_end)
                       ELSE query_params
    /\ url' = TimelineUrl(args.issue_fullname, args.date_start, args.date_end)
    /\ limit' = DefaultLimit
    /\ verbose' = FALSE
    /\ pc' = "pages_call"
    /\ UNCHANGED <<caller, args, page, result, ret, exc, printed, server, requests,
                   responses>>

FilterReturn ==
    /\ pc = "returned"
    /\ caller = "filter"
    /\ ret' = RetVal(SelectSeq(ret.val,
                 LAMBDA e : EventKept(e, args.username, args.labels, args.event_type)))
    /\ pc' = "done"
    /\ UNCHANGED <<caller, args, url, limit, verbose, page, result, query_params, exc,
                   printed, server, requests, responses>>

----------------------------------------------------------------------------
(* git_username_detect *)

Whitespace == {" ", "\n"}

RECURSIVE RStrip(_)
\* str.rstrip()
RStrip(s) ==
    IF s # <<>> /\ s[Len(s)] \in Whitespace THEN RStrip(SubSeq(s, 1, Len(s) - 1)) ELSE s

\* result.check_returncode() raises CalledProcessError on a non-zero exit status.
CheckReturncodeRaises(git) == git.rc # 0

\* The whole function; args is what running ["git", "config", "user.username"] does:
\* whether the executable is found, its exit status and its standard output.
GitUsernameDetect ==
    /\ pc = "entry"
    /\ caller = "git"
    /\ IF ~args.found
       THEN \* subprocess.run raises FileNotFoundError; the handler is for CalledProcessError
            /\ pc' = "raised"
            /\ exc' = "FileNotFoundError"
            /\ UNCHANGED <<ret, printed>>
       ELSE IF CheckReturncodeRaises(args)
       THEN /\ pc' = "done"
            /\ printed' = Append(printed, <<"Error fetching Git username: ",
                                            "CalledProcessError">>)
            /\ ret' = RetNone
            /\ exc' = exc
       ELSE /\ pc' = "done"
            /\ ret' = RetVal(RStrip(args.stdout))
            /\ UNCHANGED <<exc, printed>>
    /\ UNCHANGED <<caller, args, url, limit, verbose, page, result, query_params,
                   server, requests, responses>>

----------------------------------------------------------------------------
(* The callers, from their entry *)

InitCaller(c, a, srv) ==
    /\ caller = c
    /\ args = a
    /\ pc = "entry"
    /\ url = <<>>
    /\ limit = 0
    /\ verbose = FALSE
    /\ page = 0
    /\ result = <<>>
    /\ query_params = <<>>
    /\ ret = NoRet
    /\ exc = ""
    /\ printed = <<>>
    /\ server = srv
    /\ requests = <<>>
    /\ responses = <<>>

Dates == {Null, "2024-01-01", "2024-02-01"}
Bob == "bob"
Carol == "carol"

Events ==
    {NullEvent}
    \cup {Ev(u, "label", l) : u \in {Bob, Carol, Null}, l \in {"bug", "ui"}}
    \cup {Ev(u, "close", Null) : u \in {Bob, Carol, Null}}

FilterArgs(dates_start, dates_end, usernames, labelss, event_types) ==
    [issue_fullname : {"blender/blender/issues/1"},
     date_start : dates_start, date_end : dates_end, username : usernames,
     labels : labelss, event_type : event_types]

SearchArgs ==
    [type : {PyNone, PyStr("issues"), PyStr("")},
     since : {PyNone, PyStr("2024-01-01T00:00:00Z")},
     before : {PyNone, PyStr("2024-02-01T00:00:00Z")},
     state : {PyStr("all"), PyStr("open"), PyStr(""), PyNone},
     labels : {PyNone, PyStr("bug,ui")},
     created : {PyBool(TRUE), PyBool(FALSE)},
     reviewed : {PyBool(TRUE), PyBool(FALSE)},
     access_token : {PyNone, PyStr("token")},
     verbose : {PyBool(TRUE), PyBool(FALSE)}]

\* A long result list: 137 events, served 30 or 50 at a time by default.
LongTimeline == [i \in 1..137 |->
    CASE i % 3 = 0 -> Ev(Bob, "label", "bug")
      [] i % 3 = 1 -> Ev(Bob, "close", Null)
      [] OTHER -> Ev(Carol, "close", Null)]
ServerDefaults == {30, 50}

InitCallers ==
    \E D \in ServerDefaults :
        \/ \E a \in SearchArgs : InitCaller("search", a, ListServer(LongTimeline, D))
        \/ \E a \in [username : {Bob}, date : {"2024-01-01"}] :
              InitCaller("activities", a, ListServer(LongTimeline, D))
        \/ \E a \in FilterArgs(Dates, Dates, {Bob, Null}, {NoLabels, LabelSet({"bug"})},
                               {{}, {"close"}}) :
              InitCaller("filter", a, ListServer(LongTimeline, D))
NextCallers ==
    SearchCall \/ ActivitiesCall \/ FilterCall \/ PagesCall \/ PagesIter
    \/ SearchReturn \/ FilterReturn
SpecCallers == InitCallers /\ [][NextCallers]_vars

\* The timeline filter over every short timeline, served in one page.
InitFilter ==
    \E tl \in SeqsUpTo(Events, MaxEvents) :
    \E a \in FilterArgs({Null}, {Null}, {Bob, Null},
                        {NoLabels, LabelSet({}), LabelSet({"bug"})},
                        {{}, {"close"}, {"label"}}) :
        InitCaller("filter", a, ListServer(tl, DefaultLimit))
NextFilter == FilterCall \/ PagesCall \/ PagesIter \/ FilterReturn
SpecFilter == InitFilter /\ [][NextFilter]_vars

InitGit ==
    \E a \in [found : BOOLEAN, rc : {0, 1}, stdout : SeqsUpTo({"b", "o", " ", "\n"}, MaxOut)] :
        InitCaller("git", a, AnyServer)
NextGit == GitUsernameDetect
SpecGit == InitGit /\ [][NextGit]_vars

----------------------------------------------------------------------------
(* Properties of url_json_get_all_pages *)

\* A response that ends the pagination: no list, an empty list, or a short page.
Stopping(r, l) == r.kind # "json" \/ r.body = <<>> \/ Len(r.body) < l

Bodies(rs, n) == [i \in 1..n |-> rs[i].body]

PageParams(k, l) == <<"&", "page", "=", ToString(k), "&", "limit", "=", ToString(l)>>

\* C1: with limit <= 50, the call returns at the first page k whose response is
\* empty/null or shorter than limit, after exactly k requests, and its result is the
\* concatenation of the responses of pages 1..k in page-then-intra-page order.
C1_StopsAtFirstShortPage ==
    (caller = "direct" /\ limit <= MaxLimit) =>
        /\ pc = "pages_loop" =>
              /\ Len(responses) = Len(requests)
              /\ \A j \in 1..Len(responses) : ~Stopping(responses[j], limit)
        /\ pc = "returned" =>
              LET k == Len(requests) IN
              /\ k >= 1
              /\ Len(responses) = k
              /\ Stopping(responses[k], limit)
              /\ \A j \in 1..(k - 1) : ~Stopping(responses[j], limit)
              /\ result = Flatten(Bodies(responses, k))
              /\ ret = RetVal(result)
              /\ (Len(responses[1].body) < limit => k = 1)
              /\ (responses[1].body = <<>> => result = <<>>)

C1_Witness ==
    /\ pc = "returned"
    /\ limit = 2
    /\ Len(requests) = 2
    /\ responses[1] = Json(<<"a", "b">>)
    /\ responses[2] = Json(<<"b">>)
    /\ ret = RetVal(<<"a", "b", "b">>)

\* C3: a limit above 50 fails the precondition before any request is made; a
\* limit of at most 50 never fails it.
C3_LimitPrecondition ==
    /\ (limit > MaxLimit /\ pc # "pages_call") =>
          (pc = "raised" /\ exc = "AssertionError" /\ requests = <<>> /\ ~ret.set)
    /\ (limit <= MaxLimit) => exc # "AssertionError"

C3_Witness ==
    /\ limit = MaxLimit + 1
    /\ pc = "raised"
    /\ exc = "AssertionError"
    /\ requests = <<>>

C8_RequestSequence ==
    /\ \A k \in 1..Len(requests) :
          requests[k] = IF k = 1 THEN url ELSE url \o PageParams(k, limit)
    /\ \A k \in 1..(Len(requests) - 1) :
          /\ responses[k].kind = "json"
          /\ Len(responses[k].body) >= limit
    /\ pc = "pages_loop" => page = Len(requests) + 1

C8_Witness ==
    /\ Len(requests) = 3
    /\ requests[1] = BaseUrl
    /\ requests[3] = BaseUrl \o <<"&", "page", "=", "3", "&", "limit", "=", "1">>

\* C2 (as stated): against pages of sizes 50, 50, 37, every limit <= 50 gives 137
\* items after exactly 3 requests.
C2_AsStated ==
    (pc = "returned" /\ limit <= MaxLimit) =>
        (Len(ret.val) = 137 /\ Len(requests) = 3)

\* C2 (amended): against pages of sizes 50, 50, 37, every limit <= 50 gives the 137
\* items in order; exactly 3 requests are made when 37 < limit <= 50, and a fourth
\* request follows the 37-item page when limit <= 37.
C2_ScriptedPages ==
    (pc = "returned" /\ limit <= MaxLimit) =>
        /\ ret = RetVal(Flatten(ScriptPages))
        /\ Len(ret.val) = 137
        /\ Len(requests) = IF limit > 37 THEN 3 ELSE 4

C2_Witness ==
    /\ pc = "returned"
    /\ limit = 50
    /\ Len(requests) = 3
    /\ Len(ret.val) = 137

Min(a, b) == IF a <= b THEN a ELSE b

\* The unparameterised first response (the first D items) is what page=1&limit=L
\* would have been (the first L items); so it is whenever D = L.
FirstPageAgrees(N, D, L) == Min(N, D) = Min(N, L)

\* C10 (as stated): against a list service with N items and default page size D,
\* the call with limit L returns all N items once, in order, for every D and L.
C10_AsStated ==
    pc = "returned" => ret = RetVal(server.data)

\* C10 (amended): the call ends after at most N \div L + 1 requests without
\* raising, and returns all N items once and in order exactly when the first
\* response is the first L items (min(N, D) = min(N, L), as when D = L).
C10_ListService ==
    /\ pc # "raised"
    /\ Len(requests) <= (Len(server.data) \div limit) + 1
    /\ pc = "pages_loop" => Len(requests) <= Len(server.data) \div limit
    /\ pc = "returned" =>
          (ret = RetVal(server.data)
             <=> FirstPageAgrees(Len(server.data), server.D, limit))

C10_Witness ==
    /\ pc = "returned"
    /\ server.D = 2
    /\ limit = 2
    /\ Len(requests) = 3
    /\ ret = RetVal(<<1, 2, 3, 4, 5>>)

----------------------------------------------------------------------------
(* Properties of the callers *)

FilterNames == {"type", "since", "before", "state", "labels", "created", "reviewed",
                "access_token"}

\* C6: the mapping gitea_json_issues_search builds holds exactly the named filters
\* with a truthy value, never verbose, True as "true"; state="all" stays unless
\* overridden by a falsy value.
C6_QueryParams ==
    (caller = "search" /\ pc # "entry") =>
        /\ \A i, j \in 1..Len(query_params) :
              query_params[i].k = query_params[j].k => i = j
        /\ Keys(query_params) = {n \in FilterNames : Truthy(args[n])}
        /\ \A i \in 1..Len(query_params) :
              query_params[i].v = IF args[query_params[i].k] = PyBool(TRUE)
                                  THEN PyStr("true")
                                  ELSE args[query_params[i].k]
        /\ (args["state"] = PyStr("all") =>
              [k |-> "state", v |-> PyStr("all")] \in
                  {query_params[i] : i \in 1..Len(query_params)})

C6_Witness ==
    /\ caller = "search"
    /\ pc = "done"
    /\ args["created"] = PyBool(TRUE)
    /\ args["reviewed"] = PyBool(FALSE)
    /\ args["state"] = PyStr("all")
    /\ Keys(query_params) = {"state", "created"}
    /\ query_params[2] = [k |-> "created", v |-> PyStr("true")]

\* C9: every URL requested for a page > 1 has a query part for the appended
\* &page=..&limit=.. to land in.
C9_PageUrlsHaveQuery ==
    \A k \in 2..Len(requests) : HasQuery(requests[k])

\* The events the claim keeps: a non-null event by the requested author that is a
\* label event with its label in labels, or has its type in event_type.
Selected(e, a) ==
    /\ ~e.null
    /\ e.user # Null
    /\ e.user = a.username
    /\ \/ (e.type = "label" /\ ~a.labels.none /\ e.label \in a.labels.names)
       \/ e.type \in a.event_type

\* C5: gitea_json_issue_events_filter returns, in input order, exactly the events
\* of the timeline that the requested user authored and that match labels or
\* event_type.
C5_EventsFilter ==
    (caller = "filter" /\ pc = "done") =>
        ret = RetVal(SelectSeq(server.data, LAMBDA e : Selected(e, args)))

C5_Witness ==
    /\ caller = "filter"
    /\ pc = "done"
    /\ args.username = Bob
    /\ args.labels = LabelSet({"bug"})
    /\ args.event_type = {"close"}
    /\ server.data = <<Ev(Bob, "label", "bug"), Ev(Bob, "close", Null),
                       Ev(Carol, "close", Null)>>
    /\ ret = RetVal(<<Ev(Bob, "label", "bug"), Ev(Bob, "close", Null)>>)

\* C7: git_username_detect never raises; it returns None and logs when git is not
\* found or exits non-zero (as it does with no user.username configured), and
\* returns the configured username otherwise.
C7_GitUsernameDetect ==
    (caller = "git" /\ pc # "entry") =>
        /\ exc = ""
        /\ IF ~args.found \/ args.rc # 0
           THEN ret = RetNone /\ printed # <<>>
           ELSE ret = RetVal(RStrip(args.stdout))

====
